---- MODULE Spec2Model ----
(***************************************************************************)
(* Model of the retrieval / selection / citation pipeline of the RAG       *)
(* assistant: RAGService.answer_question and its helpers                   *)
(* (app/services/rag_service.py) on top of                                 *)
(* ChromaRepository.similarity_search (app/services/chroma_repository.py). *)
(*                                                                         *)
(* Representation:                                                         *)
(*   - a str is a sequence of one-character strings, so len(text) is Len;  *)
(*   - a similarity score is an integer number of halves: ScoreOne stands  *)
(*     for 1.0, and a raw distance is an integer, so 1.0 - d / 2.0 is      *)
(*     ScoreOne - d halves;                                                *)
(*   - an Optional value is <<>> (None) or <<v>>; an Optional[str] taken   *)
(*     from a dict is the string NoneStr or the value;                     *)
(*   - payload.max_sources = 0 stands for an omitted (None) max_sources:   *)
(*     the schema rejects 0 itself (ge=1).                                 *)
(***************************************************************************)
EXTENDS Integers, Sequences, FiniteSets, TLC

\* ------------------------------------------------------------------------
\* Bounds of the model
\* ------------------------------------------------------------------------
\* longest document list the store returns in one call
MaxDocs == 3
\* largest configured max_context_characters
MaxContextChars == 3

\* number of threads that resolve a dependency at the same time
NumCallers == 2
Callers == 1..NumCallers

\* values of payload.max_sources (0: omitted)
MaxSourcesValues == {0, 1, 2, 3}
\* values of Settings.retrieval_default_top_k
TopKValues == {1, 2}
\* values of Settings.retrieval_max_k
MaxKValues == {1, 3}
\* questions that pass QueryRequest validation (min_length=1)
Questions == { <<"q">>, <<" ", "q", "\n">>, <<" ">> }

\* ------------------------------------------------------------------------
\* Scalars and strings
\* ------------------------------------------------------------------------
\* the similarity 1.0, in halves
ScoreOne == 2

NoneStr == "<None>"

Max(a, b) == IF a >= b THEN a ELSE b
Min(a, b) == IF a <= b THEN a ELSE b

IsSpace(c) == c \in {" ", "\n"}

RECURSIVE LStrip(_)
LStrip(s) == IF s # <<>> /\ IsSpace(Head(s)) THEN LStrip(Tail(s)) ELSE s

RECURSIVE RStrip(_)
RStrip(s) ==
    IF s # <<>> /\ IsSpace(s[Len(s)]) THEN RStrip(SubSeq(s, 1, Len(s) - 1)) ELSE s

\* str.strip()
Strip(s) == RStrip(LStrip(s))

\* str.replace("\n", " ")
ReplaceNewline(s) == [i \in 1..Len(s) |-> IF s[i] = "\n" THEN " " ELSE s[i]]

\* str.split(): the maximal runs of non-space characters
RECURSIVE SplitWords(_, _)
SplitWords(s, cur) ==
    IF s = <<>>
      THEN IF cur = <<>> THEN <<>> ELSE <<cur>>
      ELSE IF IsSpace(Head(s))
             THEN (IF cur = <<>> THEN <<>> ELSE <<cur>>) \o SplitWords(Tail(s), <<>>)
             ELSE SplitWords(Tail(s), Append(cur, Head(s)))

\* " ".join(words)
RECURSIVE JoinWords(_)
JoinWords(ws) ==
    IF ws = <<>> THEN <<>>
    ELSE IF Len(ws) = 1 THEN ws[1]
    ELSE ws[1] \o <<" ">> \o JoinWords(Tail(ws))

Placeholder == <<" ", "[", ".", ".", ".", "]">>

\* the longest prefix of the words that still leaves room for the placeholder
RECURSIVE FittingPrefix(_, _, _)
FittingPrefix(ws, k, width) ==
    IF k = 0 THEN <<>>
    ELSE IF Len(JoinWords(SubSeq(ws, 1, k))) + Len(Placeholder) <= width
           THEN SubSeq(ws, 1, k)
           ELSE FittingPrefix(ws, k - 1, width)

\* textwrap.shorten(text, width): collapse whitespace, keep the text when it
\* fits, otherwise drop trailing words and mark the cut with the placeholder
Shorten(text, width) ==
    LET ws == SplitWords(text, <<>>)
        joined == JoinWords(ws)
        kept == FittingPrefix(ws, Len(ws), width)
    IN IF Len(joined) <= width THEN joined
       ELSE IF kept = <<>> THEN LStrip(Placeholder)
       ELSE JoinWords(kept) \o Placeholder

\* width of a snippet in the Sources section
SnippetWidth == 260

\* ------------------------------------------------------------------------
\* Metadata dictionaries: functions from a set of keys to strings
\* ------------------------------------------------------------------------
EmptyMeta == [k \in {} |-> ""]

\* dict.get(key)
Get(m, k) == IF k \in DOMAIN m THEN m[k] ELSE NoneStr

\* x or y, on Optional[str]
OrElse(x, y) == IF x \notin {NoneStr, ""} THEN x ELSE y

\* chunk.metadata.get("source") or chunk.metadata.get("file_name")
SourceName(metadata) == OrElse(Get(metadata, "source"), Get(metadata, "file_name"))

\* ------------------------------------------------------------------------
\* The documents the store can return: text (None when missing), raw
\* distance, metadata (None when missing)
\* ------------------------------------------------------------------------
StoreDocs ==
    { [id |-> "c1", document |-> << <<"a">> >>, distance |-> 0,
       metadata |-> << ("source" :> "s") >>],
      [id |-> "c2", document |-> << <<"\n", "b">> >>, distance |-> -1,
       metadata |-> << ("file_name" :> "f") >>],
      [id |-> "c3", document |-> << <<"a">> >>, distance |-> 1,
       metadata |-> << EmptyMeta >>],
      [id |-> "c4", document |-> <<>>, distance |-> 1,
       metadata |-> <<>>],
      [id |-> "c5", document |-> << <<"a", " ">> >>, distance |-> 3,
       metadata |-> << ("source" :> "" @@ "file_name" :> "f") >>] }

IsInjective(s) == \A i, j \in 1..Len(s) : i # j => s[i] # s[j]

\* the result lists of one query: distinct documents, in any order
DocLists ==
    { s \in UNION { [1..n -> StoreDocs] : n \in 0..MaxDocs } : IsInjective(s) }

DropLast(s) == IF s = <<>> THEN <<>> ELSE SubSeq(s, 1, Len(s) - 1)

\* the raw query result: parallel lists; a malformed result has shorter
\* metadatas, distances and ids lists, or no ids at all
RawResult(docs, shape) ==
    LET documents == [i \in 1..Len(docs) |-> docs[i].document]
        metadatas == [i \in 1..Len(docs) |-> docs[i].metadata]
        distances == [i \in 1..Len(docs) |-> docs[i].distance]
        ids == [i \in 1..Len(docs) |-> docs[i].id]
    IN CASE shape = "full" ->
              [documents |-> documents, metadatas |-> metadatas,
               distances |-> distances, ids |-> <<ids>>]
         [] shape = "short" ->
              [documents |-> documents, metadatas |-> DropLast(metadatas),
               distances |-> DropLast(distances), ids |-> <<DropLast(ids)>>]
         [] shape = "noids" ->
              [documents |-> documents, metadatas |-> metadatas,
               distances |-> distances, ids |-> <<>>]

Shapes == {"full", "short", "noids"}

\* str(i) for a list index
IndexStr(i) == <<"0", "1", "2", "3", "4", "5", "6", "7">>[i + 1]

\* ------------------------------------------------------------------------
\* ChromaRepository.similarity_search
\* ------------------------------------------------------------------------
\* n_results = max(1, min(n_results, settings.retrieval_max_k))
ClampResults(n_results, retrieval_max_k) == Max(1, Min(n_results, retrieval_max_k))

\* variant: the similarity is not clamped
SimilarityUnclamped(distance) == ScoreOne - distance

\* similarity = max(0.0, min(1.0, 1.0 - (float(distance) / 2.0)))
Similarity(distance) == Max(0, Min(ScoreOne, ScoreOne - distance))

\* the loop over the documents of a raw result (idx counts from 0)
BuildChunks(r) ==
    LET ids == IF r.ids # <<>> /\ r.ids[1] # <<>>
                 THEN r.ids[1]
                 ELSE [i \in 1..Len(r.documents) |-> IndexStr(i - 1)]
        chunk(i) ==
            LET doc == r.documents[i]
                text == IF doc = <<>> \/ doc[1] = <<>> THEN <<>> ELSE doc[1]
                metadata == IF i <= Len(r.metadatas) THEN r.metadatas[i] ELSE <<>>
                distance == IF i <= Len(r.distances) THEN r.distances[i] ELSE 0
                chunk_id == IF i <= Len(ids) THEN ids[i] ELSE IndexStr(i - 1)
            IN [id |-> chunk_id,
                text |-> text,
                score |-> Similarity(distance),
                metadata |-> IF metadata = <<>> \/ DOMAIN metadata[1] = {}
                               THEN EmptyMeta ELSE metadata[1]]
    IN [i \in 1..Len(r.documents) |-> chunk(i)]

\* ------------------------------------------------------------------------
\* RAGService._select_chunks: filter and sort
\* ------------------------------------------------------------------------
\* variant: the threshold itself is discarded (score > min_score)
RECURSIVE FilterByScoreStrict(_, _)
FilterByScoreStrict(chunks, min_score) ==
    IF chunks = <<>> THEN <<>>
    ELSE (IF Head(chunks).score > min_score THEN <<Head(chunks)>> ELSE <<>>)
         \o FilterByScoreStrict(Tail(chunks), min_score)

\* [c for c in chunks if c.score >= min_score]
RECURSIVE FilterByScore(_, _)
FilterByScore(chunks, min_score) ==
    IF chunks = <<>> THEN <<>>
    ELSE (IF Head(chunks).score >= min_score THEN <<Head(chunks)>> ELSE <<>>)
         \o FilterByScore(Tail(chunks), min_score)

\* variant: a chunk goes in front of the chunks of equal score, as when the
\* list is sorted ascending and then reversed
RECURSIVE InsertBeforeTies(_, _)
InsertBeforeTies(sorted, c) ==
    IF sorted = <<>> THEN <<c>>
    ELSE IF Head(sorted).score > c.score
           THEN <<Head(sorted)>> \o InsertBeforeTies(Tail(sorted), c)
           ELSE <<c>> \o sorted

\* the place of one more chunk in a list sorted by descending score: behind
\* every chunk that scores at least as much (list.sort is stable, and with
\* reverse=True equal keys keep their original order)
RECURSIVE InsertByScore(_, _)
InsertByScore(sorted, c) ==
    IF sorted = <<>> THEN <<c>>
    ELSE IF Head(sorted).score >= c.score
           THEN <<Head(sorted)>> \o InsertByScore(Tail(sorted), c)
           ELSE <<c>> \o sorted

\* filtered.sort(key=lambda c: c.score, reverse=True)
RECURSIVE SortByScore(_)
SortByScore(chunks) ==
    IF chunks = <<>> THEN <<>>
    ELSE InsertByScore(SortByScore(DropLast(chunks)), chunks[Len(chunks)])

\* ------------------------------------------------------------------------
\* RAGService._generate_answer and RAGService._format_sources
\* ------------------------------------------------------------------------
\* one line of the answer text: a fixed sentence, the echoed question, or a
\* numbered reference of the Sources section
FixedLine(body) ==
    [kind |-> "fixed", body |-> body, idx |-> 0, label |-> NoneStr, snippet |-> <<>>]
QuestionLine(q) ==
    [kind |-> "question", body |-> "Question: ", idx |-> 0, label |-> NoneStr,
     snippet |-> q]

\* variant: the references are numbered from 0 (enumerate without start=1)
SummaryLineFromZero(i, chunk) ==
    [kind |-> "reference", body |-> "", idx |-> i - 1,
     label |-> IF SourceName(chunk.metadata) \notin {NoneStr, ""}
                 THEN SourceName(chunk.metadata) ELSE NoneStr,
     snippet |-> Shorten(ReplaceNewline(chunk.text), SnippetWidth)]

\* f"{prefix} {snippet}", prefix = f"[{idx}]" plus f" ({source_name})" when
\* source_name is truthy
SummaryLine(i, chunk) ==
    [kind |-> "reference", body |-> "", idx |-> i,
     label |-> IF SourceName(chunk.metadata) \notin {NoneStr, ""}
                 THEN SourceName(chunk.metadata) ELSE NoneStr,
     snippet |-> Shorten(ReplaceNewline(chunk.text), SnippetWidth)]

\* the lines of "\n".join(summary_lines): joining no lines gives the empty
\* string, which is one empty line of the answer
ContextSummary(chunks) ==
    IF chunks = <<>> THEN <<FixedLine("")>>
    ELSE [i \in 1..Len(chunks) |-> SummaryLine(i, chunks[i])]

GenerateAnswer(q, chunks) ==
    << QuestionLine(q),
       FixedLine(""),
       FixedLine("Based on the retrieved knowledge base content, here is a synthesized answer:"),
       FixedLine(""),
       FixedLine("The relevant documentation describes ..."),
       FixedLine(""),
       FixedLine("Each numbered reference below corresponds to a specific chunk ..."),
       FixedLine(""),
       FixedLine("Sources:") >>
    \o ContextSummary(chunks)

\* the answer when the search returned no candidates
NoKnowledgeAnswer ==
    << FixedLine("I could not find any relevant content in the knowledge base to answer this question. ...") >>

\* variant: the citation ids are numbered from 0
FormatSourcesFromZero(chunks) ==
    [i \in 1..Len(chunks) |->
        [id |-> chunks[i].id,
         citation_id |-> i - 1,
         score |-> chunks[i].score,
         source |-> SourceName(chunks[i].metadata),
         rank |-> i,
         text |-> chunks[i].text,
         metadata |-> chunks[i].metadata]]

\* enumerate(chunks, start=1): one SourceChunk per chunk
FormatSources(chunks) ==
    [i \in 1..Len(chunks) |->
        [id |-> chunks[i].id,
         citation_id |-> i,
         score |-> chunks[i].score,
         source |-> SourceName(chunks[i].metadata),
         rank |-> i,
         text |-> chunks[i].text,
         metadata |-> chunks[i].metadata]]

QueryResponse(answer, sources) == [answer |-> answer, sources |-> sources]

\* ------------------------------------------------------------------------
\* State
\* ------------------------------------------------------------------------
VARIABLES
    settings,          \* the Settings object of the process
    payload,           \* the validated QueryRequest
    pc,                \* where answer_question stands
    visited,           \* the places answer_question has been at
    question,          \* local: payload.question.strip()
    max_sources,       \* local: payload.max_sources or the default top-K
    n_results,         \* the n_results argument given to similarity_search
    query_n,           \* the n_results given to collection.query
    search_calls,      \* number of calls of similarity_search
    raw,               \* the result of collection.query, <<>> before it
    candidate_chunks,  \* local: what similarity_search returned
    filtered,          \* _select_chunks: the filtered, sorted list
    pos,               \* _select_chunks: index of the next chunk of the scan
    selected,          \* _select_chunks: the accepted chunks
    total_chars,       \* _select_chunks: the running character total
    response,          \* the QueryResponse returned, <<>> before it
    error,             \* the exception that left answer_question, or NoneStr
    callers,           \* the threads resolving the singleton dependencies
    _chroma_repo,      \* module global of chroma_repository: 0 (None) or a repository
    _rag_service,      \* module global of rag_service: 0 (None) or a service
    repos_created,     \* number of ChromaRepository (HttpClient) instances built
    services,          \* the RAGService instances built: the repository of each
    parked             \* the locals of the other answer_question calls in flight

vars == << settings, payload, pc, visited, question, max_sources, n_results,
           query_n, search_calls, raw, candidate_chunks, filtered, pos,
           selected, total_chars, response, error, callers, _chroma_repo,
           _rag_service, repos_created, services, parked >>

\* the state of the dependency helpers
singletonVars == << callers, _chroma_repo, _rag_service, repos_created, services >>

\* what a step of answer_question leaves alone
outside == << singletonVars, parked >>

SettingsValues ==
    [ retrieval_default_top_k : TopKValues,
      retrieval_max_k : MaxKValues,
      retrieval_min_score : 0..ScoreOne,
      max_context_characters : 0..MaxContextChars ]

\* a thread that has not yet asked for a dependency
IdleCaller == [pc |-> "idle", via |-> "none", tmp |-> 0, chroma_repo |-> 0,
               result |-> 0]

Payloads == [ question : Questions, max_sources : MaxSourcesValues ]

\* the service is built and one call of answer_question has its payload
InitRequest ==
    /\ settings \in SettingsValues
    /\ payload \in Payloads
    /\ pc = "Received"
    /\ visited = {"Received"}
    /\ question = <<>>
    /\ max_sources = 0
    /\ n_results = 0
    /\ query_n = 0
    /\ search_calls = 0
    /\ raw = <<>>
    /\ candidate_chunks = <<>>
    /\ filtered = <<>>
    /\ pos = 0
    /\ selected = <<>>
    /\ total_chars = 0
    /\ response = <<>>
    /\ error = NoneStr
    /\ callers = [c \in Callers |-> IdleCaller]
    /\ _chroma_repo = 0
    /\ _rag_service = 0
    /\ repos_created = 0
    /\ services = <<>>

Init ==
    /\ InitRequest
    /\ parked = <<>>

Goto(place) == pc' = place /\ visited' = visited \cup {place}

selectVars == << filtered, pos, selected, total_chars >>

\* ------------------------------------------------------------------------
\* RAGService.answer_question
\* ------------------------------------------------------------------------
\* question = payload.question.strip();
\* max_sources = payload.max_sources or settings.retrieval_default_top_k
Receive ==
    /\ pc = "Received"
    /\ question' = Strip(payload.question)
    /\ max_sources' = IF payload.max_sources # 0 THEN payload.max_sources
                      ELSE settings.retrieval_default_top_k
    /\ Goto("Retrieving")
    /\ UNCHANGED << settings, payload, n_results, query_n, search_calls, raw,
                    candidate_chunks, selectVars, response, error, outside >>

\* variant: only what the caller asked for is requested
RequestedResultsNoHeadroom == max_sources

\* the argument n_results=max(max_sources, retrieval_default_top_k)
RequestedResults == Max(max_sources, settings.retrieval_default_top_k)

\* the call of similarity_search up to collection.query
CallSearch ==
    /\ n_results' = RequestedResults
    /\ query_n' = ClampResults(RequestedResults, settings.retrieval_max_k)
    /\ search_calls' = search_calls + 1

\* variant: the failure is caught and answered with the no-knowledge response
SearchUnavailableFallback ==
    /\ pc = "Retrieving"
    /\ CallSearch
    /\ response' = << QueryResponse(NoKnowledgeAnswer, <<>>) >>
    /\ Goto("Completed")
    /\ UNCHANGED << settings, payload, question, max_sources, raw,
                    candidate_chunks, selectVars, error, outside >>

\* collection.query raises: similarity_search raises ChromaUnavailableError,
\* which answer_question does not catch
SearchUnavailable ==
    /\ pc = "Retrieving"
    /\ CallSearch
    /\ error' = "ChromaUnavailableError"
    /\ Goto("Failed")
    /\ UNCHANGED << settings, payload, question, max_sources, raw,
                    candidate_chunks, selectVars, response, outside >>

\* variant: an empty candidate list goes through selection and composition
SearchEmptyNoShortCircuit ==
    /\ pc = "Retrieving"
    /\ CallSearch
    /\ raw' = << RawResult(<<>>, "full") >>
    /\ candidate_chunks' = <<>>
    /\ Goto("Selecting")
    /\ UNCHANGED << settings, payload, question, max_sources, selectVars,
                    response, error, outside >>

\* collection.query returns no documents: similarity_search returns [] and
\* answer_question returns the no-knowledge response
SearchEmpty ==
    /\ pc = "Retrieving"
    /\ CallSearch
    /\ raw' = << RawResult(<<>>, "full") >>
    /\ candidate_chunks' = <<>>
    /\ response' = << QueryResponse(NoKnowledgeAnswer, <<>>) >>
    /\ Goto("Completed")
    /\ UNCHANGED << settings, payload, question, max_sources, selectVars, error,
                    outside >>

\* collection.query returns one of the given document lists, at most
\* n_results documents long, and similarity_search returns its chunks
SearchReturning(lists, shapes) ==
    /\ pc = "Retrieving"
    /\ CallSearch
    /\ \E docs \in lists, shape \in shapes :
          /\ docs # <<>>
          /\ Len(docs) <= query_n'
          /\ raw' = << RawResult(docs, shape) >>
          /\ candidate_chunks' = BuildChunks(RawResult(docs, shape))
    /\ Goto("Selecting")
    /\ UNCHANGED << settings, payload, question, max_sources, selectVars,
                    response, error, outside >>

\* collection.query returns at most n_results documents
SearchCandidates == SearchReturning(DocLists, Shapes)

\* _select_chunks up to the loop: filter, sort, selected = [], total_chars = 0
BeginSelect ==
    /\ pc = "Selecting"
    /\ filtered' = SortByScore(FilterByScore(candidate_chunks,
                                             settings.retrieval_min_score))
    /\ pos' = 1
    /\ selected' = <<>>
    /\ total_chars' = 0
    /\ Goto("Scanning")
    /\ UNCHANGED << settings, payload, question, max_sources, n_results, query_n,
                    search_calls, raw, candidate_chunks, response, error,
                    outside >>

scanFrame == << settings, payload, question, max_sources, n_results, query_n,
                search_calls, raw, candidate_chunks, filtered, response, error,
                outside >>

\* variant: the cap checked one chunk late
CapReachedLate == Len(selected) > max_sources

\* len(selected) >= max_sources
CapReached == Len(selected) >= max_sources

\* prospective_len = total_chars + len(chunk.text)
ProspectiveLen(chunk) == total_chars + Len(chunk.text)

\* variant: a chunk that fills the budget exactly is skipped too
OverBudgetInclusive(chunk) ==
    ProspectiveLen(chunk) >= settings.max_context_characters

\* variant: the chunk alone is compared with the budget
OverBudgetAlone(chunk) == Len(chunk.text) > settings.max_context_characters

\* prospective_len > max_context_chars
OverBudget(chunk) == ProspectiveLen(chunk) > settings.max_context_characters

\* if len(selected) >= max_sources: break
ScanBreak ==
    /\ pc = "Scanning"
    /\ pos <= Len(filtered)
    /\ CapReached
    /\ Goto("Composing")
    /\ UNCHANGED << scanFrame, pos, selected, total_chars >>

\* variant: the scan stops at the first chunk that overflows the budget
ScanStopAtOverflow ==
    /\ pc = "Scanning"
    /\ pos <= Len(filtered)
    /\ ~CapReached
    /\ OverBudget(filtered[pos])
    /\ Goto("Composing")
    /\ UNCHANGED << scanFrame, pos, selected, total_chars >>

\* if prospective_len > max_context_chars: continue
ScanSkip ==
    /\ pc = "Scanning"
    /\ pos <= Len(filtered)
    /\ ~CapReached
    /\ OverBudget(filtered[pos])
    /\ pos' = pos + 1
    /\ UNCHANGED << scanFrame, pc, visited, selected, total_chars >>

\* selected.append(chunk); total_chars = prospective_len
ScanAccept ==
    /\ pc = "Scanning"
    /\ pos <= Len(filtered)
    /\ ~CapReached
    /\ ~OverBudget(filtered[pos])
    /\ selected' = Append(selected, filtered[pos])
    /\ total_chars' = ProspectiveLen(filtered[pos])
    /\ pos' = pos + 1
    /\ UNCHANGED << scanFrame, pc, visited >>

\* the list is exhausted: return selected
ScanEnd ==
    /\ pc = "Scanning"
    /\ pos > Len(filtered)
    /\ Goto("Composing")
    /\ UNCHANGED << scanFrame, pos, selected, total_chars >>

\* answer_text = _generate_answer(...); sources = _format_sources(...);
\* return QueryResponse(answer=answer_text, sources=sources)
Compose ==
    /\ pc = "Composing"
    /\ response' = << QueryResponse(GenerateAnswer(question, selected),
                                    FormatSources(selected)) >>
    /\ Goto("Completed")
    /\ UNCHANGED << settings, payload, question, max_sources, n_results, query_n,
                    search_calls, raw, candidate_chunks, selectVars, error, outside >>

Next ==
    \/ Receive
    \/ SearchUnavailable
    \/ SearchEmpty
    \/ SearchCandidates
    \/ BeginSelect
    \/ ScanBreak
    \/ ScanSkip
    \/ ScanAccept
    \/ ScanEnd
    \/ Compose

Spec == Init /\ [][Next]_vars

\* ------------------------------------------------------------------------
\* The scorer over a range of raw distances: one request whose query returns
\* one or two documents with any distances of the range
\* ------------------------------------------------------------------------
ScoredDistances == -2..5

ScoredDocs ==
    { [id |-> "d", document |-> << <<"a">> >>, distance |-> d,
       metadata |-> << EmptyMeta >>] : d \in ScoredDistances }

ScoredLists ==
    { s \in UNION { [1..n -> ScoredDocs] : n \in 1..2 } : IsInjective(s) }

InitScorer ==
    /\ Init
    /\ settings.retrieval_default_top_k = 2
    /\ settings.retrieval_max_k = 3
    /\ payload.question = <<"q">>
    /\ payload.max_sources \in {0, 1}

SearchScored == SearchReturning(ScoredLists, {"noids"})

NextScorer ==
    \/ Receive
    \/ SearchUnavailable
    \/ SearchEmpty
    \/ SearchScored
    \/ BeginSelect
    \/ ScanBreak
    \/ ScanSkip
    \/ ScanAccept
    \/ ScanEnd
    \/ Compose

SpecScorer == InitScorer /\ [][NextScorer]_vars

\* ------------------------------------------------------------------------
\* get_rag_service and get_chroma_repository, as FastAPI resolves them: a
\* dependency that is a plain def runs in a worker thread, so the first
\* requests can run these functions at the same time. A thread can be
\* switched out between any two reads or writes of a module global.
\* Repositories and services are numbered in the order they are built.
\* ------------------------------------------------------------------------
requestVars == << settings, payload, pc, visited, question, max_sources,
                  n_results, query_n, search_calls, raw, candidate_chunks,
                  filtered, pos, selected, total_chars, response, error,
                  parked >>

\* the caller c moves on with the given fields changed
CallerStep(c, changes) ==
    callers' = [callers EXCEPT ![c] = changes @@ callers[c]]

\* POST /rag/query: Depends(get_rag_service)
StartQuery(c) ==
    /\ callers[c].pc = "idle"
    /\ CallerStep(c, [pc |-> "rag_check", via |-> "query"])
    /\ UNCHANGED << _chroma_repo, _rag_service, repos_created, services,
                    requestVars >>

\* GET /health: Depends(get_chroma_repository)
StartHealth(c) ==
    /\ callers[c].pc = "idle"
    /\ CallerStep(c, [pc |-> "repo_check", via |-> "health"])
    /\ UNCHANGED << _chroma_repo, _rag_service, repos_created, services,
                    requestVars >>

\* get_rag_service: if _rag_service is None
RagCheck(c) ==
    /\ callers[c].pc = "rag_check"
    /\ CallerStep(c, [pc |-> IF _rag_service = 0 THEN "repo_check"
                             ELSE "rag_return"])
    /\ UNCHANGED << _chroma_repo, _rag_service, repos_created, services,
                    requestVars >>

\* get_chroma_repository: if _chroma_repo is None
RepoCheck(c) ==
    /\ callers[c].pc = "repo_check"
    /\ CallerStep(c, [pc |-> IF _chroma_repo = 0 THEN "repo_init"
                             ELSE "repo_return"])
    /\ UNCHANGED << _chroma_repo, _rag_service, repos_created, services,
                    requestVars >>

\* ChromaRepository(host=..., port=..., collection_name=...): a new HttpClient
RepoInit(c) ==
    /\ callers[c].pc = "repo_init"
    /\ repos_created' = repos_created + 1
    /\ CallerStep(c, [pc |-> "repo_store", tmp |-> repos_created + 1])
    /\ UNCHANGED << _chroma_repo, _rag_service, services,
                    requestVars >>

\* ChromaRepository.__init__ raises ChromaUnavailableError
RepoInitFails(c) ==
    /\ callers[c].pc = "repo_init"
    /\ CallerStep(c, [pc |-> "raised"])
    /\ UNCHANGED << _chroma_repo, _rag_service, repos_created, services,
                    requestVars >>

\* _chroma_repo = <the new repository>
RepoStore(c) ==
    /\ callers[c].pc = "repo_store"
    /\ _chroma_repo' = callers[c].tmp
    /\ CallerStep(c, [pc |-> "repo_return"])
    /\ UNCHANGED << _rag_service, repos_created, services,
                    requestVars >>

\* return _chroma_repo: to FastAPI, or to chroma_repo of get_rag_service
RepoReturn(c) ==
    /\ callers[c].pc = "repo_return"
    /\ IF callers[c].via = "health"
         THEN CallerStep(c, [pc |-> "returned", result |-> _chroma_repo])
         ELSE CallerStep(c, [pc |-> "rag_init", chroma_repo |-> _chroma_repo])
    /\ UNCHANGED << _chroma_repo, _rag_service, repos_created, services,
                    requestVars >>

\* RAGService(chroma_repo=chroma_repo)
RagInit(c) ==
    /\ callers[c].pc = "rag_init"
    /\ services' = Append(services, callers[c].chroma_repo)
    /\ CallerStep(c, [pc |-> "rag_store", tmp |-> Len(services) + 1])
    /\ UNCHANGED << _chroma_repo, _rag_service, repos_created,
                    requestVars >>

\* _rag_service = <the new service>
RagStore(c) ==
    /\ callers[c].pc = "rag_store"
    /\ _rag_service' = callers[c].tmp
    /\ CallerStep(c, [pc |-> "rag_return"])
    /\ UNCHANGED << _chroma_repo, repos_created, services,
                    requestVars >>

\* return _rag_service
RagReturn(c) ==
    /\ callers[c].pc = "rag_return"
    /\ CallerStep(c, [pc |-> "returned", result |-> _rag_service])
    /\ UNCHANGED << _chroma_repo, _rag_service, repos_created, services,
                    requestVars >>

InitSingleton ==
    /\ Init
    /\ settings = [retrieval_default_top_k |-> 2, retrieval_max_k |-> 3,
                   retrieval_min_score |-> 1, max_context_characters |-> 3]
    /\ payload = [question |-> <<"q">>, max_sources |-> 0]

NextSingleton ==
    \/ \E c \in Callers : StartQuery(c)
    \/ \E c \in Callers : StartHealth(c)
    \/ \E c \in Callers : RagCheck(c)
    \/ \E c \in Callers : RepoCheck(c)
    \/ \E c \in Callers : RepoInit(c)
    \/ \E c \in Callers : RepoInitFails(c)
    \/ \E c \in Callers : RepoStore(c)
    \/ \E c \in Callers : RepoReturn(c)
    \/ \E c \in Callers : RagInit(c)
    \/ \E c \in Callers : RagStore(c)
    \/ \E c \in Callers : RagReturn(c)

SpecSingleton == InitSingleton /\ [][NextSingleton]_vars

\* ------------------------------------------------------------------------
\* Two calls of answer_question in flight on the one RAGService. Everything
\* a call works on is a local of its own frame; settings is the field of the
\* shared service. The variables hold the locals of the call that runs;
\* Switch hands the processor to the other call, at any point.
\* ------------------------------------------------------------------------
RequestLocals(p, at, seen, q, ms, n, qn, calls, r, cands, filt, i, sel, total, resp, err) ==
    [payload |-> p, pc |-> at, visited |-> seen, question |-> q,
     max_sources |-> ms, n_results |-> n, query_n |-> qn, search_calls |-> calls,
     raw |-> r, candidate_chunks |-> cands, filtered |-> filt, pos |-> i,
     selected |-> sel, total_chars |-> total, response |-> resp, error |-> err]

\* the locals of the running call
Running ==
    RequestLocals(payload, pc, visited, question, max_sources, n_results,
                  query_n, search_calls, raw, candidate_chunks, filtered, pos,
                  selected, total_chars, response, error)

\* the locals of a call that has not started
NewRequest(p) ==
    RequestLocals(p, "Received", {"Received"}, <<>>, 0, 0, 0, 0, <<>>, <<>>,
                  <<>>, 0, <<>>, 0, <<>>, NoneStr)

\* variant: the running total is kept on the shared service instead of in
\* the frame of the call
SwitchSharingTotal ==
    /\ parked # <<>>
    /\ payload' = Head(parked).payload
    /\ pc' = Head(parked).pc
    /\ visited' = Head(parked).visited
    /\ question' = Head(parked).question
    /\ max_sources' = Head(parked).max_sources
    /\ n_results' = Head(parked).n_results
    /\ query_n' = Head(parked).query_n
    /\ search_calls' = Head(parked).search_calls
    /\ raw' = Head(parked).raw
    /\ candidate_chunks' = Head(parked).candidate_chunks
    /\ filtered' = Head(parked).filtered
    /\ pos' = Head(parked).pos
    /\ selected' = Head(parked).selected
    /\ response' = Head(parked).response
    /\ error' = Head(parked).error
    /\ parked' = Append(Tail(parked), Running)
    /\ UNCHANGED << settings, total_chars, singletonVars >>

\* the running call is suspended and the next call in flight resumes
Switch ==
    /\ parked # <<>>
    /\ payload' = Head(parked).payload
    /\ pc' = Head(parked).pc
    /\ visited' = Head(parked).visited
    /\ question' = Head(parked).question
    /\ max_sources' = Head(parked).max_sources
    /\ n_results' = Head(parked).n_results
    /\ query_n' = Head(parked).query_n
    /\ search_calls' = Head(parked).search_calls
    /\ raw' = Head(parked).raw
    /\ candidate_chunks' = Head(parked).candidate_chunks
    /\ filtered' = Head(parked).filtered
    /\ pos' = Head(parked).pos
    /\ selected' = Head(parked).selected
    /\ total_chars' = Head(parked).total_chars
    /\ response' = Head(parked).response
    /\ error' = Head(parked).error
    /\ parked' = Append(Tail(parked), Running)
    /\ UNCHANGED << settings, singletonVars >>

\* the requests and the query results of the concurrent scenario
ConcurrentPayloads == [ question : { <<"q">> }, max_sources : {0, 1} ]

ConcurrentLists ==
    { s \in DocLists : /\ Len(s) <= 2
                       /\ \A i \in 1..Len(s) : s[i].id \in {"c1", "c2", "c3"} }

InitConcurrent ==
    /\ InitRequest
    /\ settings.retrieval_default_top_k = 2
    /\ settings.retrieval_max_k = 3
    /\ settings.retrieval_min_score = 2
    /\ settings.max_context_characters \in {1, 3}
    /\ payload \in ConcurrentPayloads
    /\ parked \in { << NewRequest(p) >> : p \in ConcurrentPayloads }

SearchFew == SearchReturning(ConcurrentLists, {"full"})

NextConcurrent ==
    \/ Receive
    \/ SearchUnavailable
    \/ SearchEmpty
    \/ SearchFew
    \/ BeginSelect
    \/ ScanBreak
    \/ ScanSkip
    \/ ScanAccept
    \/ ScanEnd
    \/ Compose
    \/ Switch

SpecConcurrent == InitConcurrent /\ [][NextConcurrent]_vars

\* ------------------------------------------------------------------------
\* Properties
\* ------------------------------------------------------------------------
RECURSIVE SumOfTextLengths(_)
SumOfTextLengths(chunks) ==
    IF chunks = <<>> THEN 0
    ELSE Len(Head(chunks).text) + SumOfTextLengths(Tail(chunks))

\* the scan of _select_chunks has returned
SelectionReturned == pc \in {"Composing", "Completed"} /\ "Scanning" \in visited

\* the position of a chunk in a list of chunks with distinct ids
PositionIn(chunks, c) == CHOOSE i \in 1..Len(chunks) : chunks[i] = c

\* C1: at every step of the scan total_chars is the sum of the text lengths
\* of the chunks accepted so far, and that sum never exceeds
\* max_context_characters; so the chunks _select_chunks returns, and the
\* sources of the response, fit the budget.
C1_BudgetRespected ==
    /\ total_chars = SumOfTextLengths(selected)
    /\ SumOfTextLengths(selected) <= settings.max_context_characters
    /\ response # <<>> =>
          SumOfTextLengths(response[1].sources) <= settings.max_context_characters

\* a scan that skipped an over-budget chunk and then filled the budget
\* exactly with two accepted chunks
C1_Witness ==
    /\ SelectionReturned
    /\ Len(selected) = 2
    /\ Len(filtered) = 3
    /\ selected[2] = filtered[3]
    /\ total_chars = settings.max_context_characters
    /\ total_chars > 0

\* C2: max_sources is the request's value or, when omitted, the default
\* top-K, and neither the list under construction, nor the list returned by
\* _select_chunks, nor the sources of the response has more than max_sources
\* elements.
C2_CountCap ==
    pc # "Received" =>
        /\ max_sources >= 1
        /\ max_sources = IF payload.max_sources # 0 THEN payload.max_sources
                         ELSE settings.retrieval_default_top_k
        /\ Len(selected) <= max_sources
        /\ response # <<>> => Len(response[1].sources) <= max_sources

\* the cap cut the scan short: the request asked for fewer sources than the
\* default top-K, more chunks passed the filter than the cap allows, and the
\* response carries exactly the cap
C2_Witness ==
    /\ pc = "Completed"
    /\ payload.max_sources # 0
    /\ payload.max_sources < settings.retrieval_default_top_k
    /\ Len(filtered) > max_sources
    /\ pos <= Len(filtered)
    /\ Len(response[1].sources) = max_sources

\* C3: once the candidates are filtered, the filtered list holds exactly the
\* candidates with score >= retrieval_min_score (the threshold itself is
\* kept), so no chunk selected is below the threshold, and when every
\* candidate is below it the output is empty.
C3_FilterCorrect ==
    "Scanning" \in visited =>
        /\ { filtered[i] : i \in 1..Len(filtered) }
             = { c \in { candidate_chunks[i] : i \in 1..Len(candidate_chunks) } :
                    c.score >= settings.retrieval_min_score }
        /\ \A i \in 1..Len(selected) :
              selected[i].score >= settings.retrieval_min_score
        /\ (\A i \in 1..Len(candidate_chunks) :
               candidate_chunks[i].score < settings.retrieval_min_score)
              => selected = <<>>

\* a chunk exactly at the threshold was selected while another candidate,
\* below the threshold, was discarded
C3_Witness ==
    /\ SelectionReturned
    /\ \E i \in 1..Len(selected) :
          selected[i].score = settings.retrieval_min_score
    /\ \E i \in 1..Len(candidate_chunks) :
          candidate_chunks[i].score < settings.retrieval_min_score

\* C4: the chunks _select_chunks accepts are in descending score order, and
\* two accepted chunks of equal score are in the order they had in the
\* candidate list.
C4_OrderedStable ==
    "Scanning" \in visited =>
        \A i, j \in 1..Len(selected) :
            i < j =>
               /\ selected[i].score >= selected[j].score
               /\ selected[i].score = selected[j].score =>
                     PositionIn(candidate_chunks, selected[i])
                        < PositionIn(candidate_chunks, selected[j])

\* the sort moved a chunk in front of two chunks of equal score, which kept
\* their order
C4_Witness ==
    /\ SelectionReturned
    /\ Len(selected) = 3
    /\ selected[1].score > selected[2].score
    /\ selected[2].score = selected[3].score
    /\ PositionIn(candidate_chunks, selected[1]) = 3

IsReference(line) == line.kind = "reference"

\* the lines of an answer that follow its "Sources:" line
SourcesSection(answer) ==
    LET heads == { i \in 1..Len(answer) : answer[i] = FixedLine("Sources:") }
    IN IF heads = {} THEN <<>>
       ELSE SubSeq(answer, (CHOOSE i \in heads : \A j \in heads : i <= j) + 1,
                   Len(answer))

HasSourcesSection(answer) ==
    \E i \in 1..Len(answer) : answer[i] = FixedLine("Sources:")

\* C5: the sources of a response built by _format_sources are as many as the
\* selected chunks and in the same order; the i-th has citation_id = rank = i
\* and the id, text and score of the i-th selected chunk.
C5_SourcesNumbered ==
    (pc = "Completed" /\ "Composing" \in visited) =>
        LET sources == response[1].sources
        IN /\ Len(sources) = Len(selected)
           /\ \A i \in 1..Len(sources) :
                 /\ sources[i].citation_id = i
                 /\ sources[i].rank = i
                 /\ sources[i].id = selected[i].id
                 /\ sources[i].text = selected[i].text
                 /\ sources[i].score = selected[i].score

\* a response with two sources where the scan skipped a chunk, so that the
\* second citation is the third chunk of the filtered list
C5_Witness ==
    /\ pc = "Completed"
    /\ Len(response[1].sources) = 2
    /\ Len(filtered) = 3
    /\ response[1].sources[2].id = filtered[3].id
    /\ response[1].sources[2].citation_id = 2

\* C6: in every response the numbered references of the answer's Sources
\* section are as many as the sources; the i-th carries the id i, which is
\* the citation_id of the i-th source, the one-line rendering of that
\* source's text and that source's label.
C6_AnswerMatchesSources ==
    response # <<>> =>
        LET sources == response[1].sources
            refs == SelectSeq(SourcesSection(response[1].answer), IsReference)
        IN /\ Len(refs) = Len(sources)
           /\ \A i \in 1..Len(refs) :
                 /\ refs[i].idx = i
                 /\ refs[i].idx = sources[i].citation_id
                 /\ refs[i].snippet =
                       Shorten(ReplaceNewline(sources[i].text), SnippetWidth)
                 /\ refs[i].label = IF sources[i].source \in {NoneStr, ""}
                                      THEN NoneStr ELSE sources[i].source

\* an answer with two references: one labelled by file_name whose text held
\* a line break, one without a label
C6_Witness ==
    /\ pc = "Completed"
    /\ Len(response[1].sources) = 2
    /\ \E i, j \in 1..2 :
          /\ response[1].sources[i].source = "f"
          /\ "\n" \in { response[1].sources[i].text[k] :
                           k \in 1..Len(response[1].sources[i].text) }
          /\ response[1].sources[j].source = NoneStr

\* C7: whenever the list of selected chunks is empty, the answer is the fixed
\* no-knowledge message and has no Sources section.
C7_EmptySelectionApology ==
    (pc = "Completed" /\ selected = <<>>) =>
        /\ response[1].answer = NoKnowledgeAnswer
        /\ ~HasSourcesSection(response[1].answer)

\* C8: when the search has been called and the query raised (there is no raw
\* result), answer_question has ended with ChromaUnavailableError, without a
\* response, without entering selection or composition, after one call.
C8_UnavailablePropagates ==
    /\ (search_calls >= 1 /\ raw = <<>>) =>
          /\ pc = "Failed"
          /\ error = "ChromaUnavailableError"
          /\ response = <<>>
          /\ search_calls = 1
          /\ visited = {"Received", "Retrieving", "Failed"}
    /\ error # NoneStr => pc = "Failed"

C8_Witness ==
    /\ pc = "Failed"
    /\ error = "ChromaUnavailableError"
    /\ search_calls = 1

\* C9: when the query returned no documents, answer_question has completed
\* without error, without entering selection or composition, with the
\* no-knowledge answer and no sources.
C9_EmptyShortCircuits ==
    (raw # <<>> /\ raw[1].documents = <<>>) =>
        /\ pc = "Completed"
        /\ error = NoneStr
        /\ response = << QueryResponse(NoKnowledgeAnswer, <<>>) >>
        /\ ~HasSourcesSection(response[1].answer)
        /\ visited = {"Received", "Retrieving", "Completed"}

C9_Witness ==
    /\ pc = "Completed"
    /\ raw # <<>>
    /\ raw[1].documents = <<>>
    /\ response[1].sources = <<>>

\* C10 as stated: the number of candidates asked of the store is
\* max(max_sources, default top-K), hence at least the default top-K, and the
\* selector caps its output at max_sources.
C10_AsksForMax ==
    search_calls >= 1 =>
        /\ query_n = IF max_sources >= settings.retrieval_default_top_k
                       THEN max_sources ELSE settings.retrieval_default_top_k
        /\ query_n >= settings.retrieval_default_top_k
        /\ Len(selected) <= max_sources

\* C10 amended: answer_question passes max(max_sources, default top-K) to
\* similarity_search, which asks the store for that number cut down to
\* retrieval_max_k (and at least 1); the number is at least the default top-K
\* when retrieval_max_k is; the selector caps its output at max_sources.
C10_AsksForClampedMax ==
    search_calls >= 1 =>
        LET wanted == IF max_sources >= settings.retrieval_default_top_k
                        THEN max_sources ELSE settings.retrieval_default_top_k
        IN /\ n_results = wanted
           /\ query_n = IF wanted > settings.retrieval_max_k
                          THEN (IF settings.retrieval_max_k >= 1
                                  THEN settings.retrieval_max_k ELSE 1)
                          ELSE wanted
           /\ settings.retrieval_max_k >= settings.retrieval_default_top_k
                 => query_n >= settings.retrieval_default_top_k
           /\ Len(selected) <= max_sources

\* the caller asked for one source, the default top-K is 2: two candidates
\* were asked for and returned, both passed the filter, one was selected
C10_Witness ==
    /\ pc = "Completed"
    /\ payload.max_sources = 1
    /\ settings.retrieval_default_top_k = 2
    /\ n_results = 2
    /\ query_n = 2
    /\ Len(filtered) = 2
    /\ Len(response[1].sources) = 1

\* the distances and the scores of the candidates of the last query
DistanceAt(i) == raw[1].distances[i]
ScoreAt(i) == candidate_chunks[i].score

\* C11: the score of every candidate is its raw distance d mapped to
\* 1 - d/2 and clamped to [0, 1]: 1 for d <= 0, 0 for d >= 2, within [0, 1]
\* for every d, and a larger distance never gives a larger score.
C11_ScoreClamped ==
    (raw # <<>> /\ candidate_chunks # <<>>) =>
        /\ \A i \in 1..Len(raw[1].distances) :
              /\ ScoreAt(i) \in 0..ScoreOne
              /\ DistanceAt(i) <= 0 => ScoreAt(i) = ScoreOne
              /\ DistanceAt(i) >= 2 => ScoreAt(i) = 0
              /\ (DistanceAt(i) > 0 /\ DistanceAt(i) < 2)
                    => 2 * ScoreAt(i) = 2 * ScoreOne - ScoreOne * DistanceAt(i)
        /\ \A i, j \in 1..Len(raw[1].distances) :
              DistanceAt(i) <= DistanceAt(j) => ScoreAt(i) >= ScoreAt(j)

\* a query that returned a document at distance 2 (score 0) after one at a
\* negative distance (score 1), both scored
C11_Witness ==
    /\ raw # <<>>
    /\ Len(candidate_chunks) = 2
    /\ DistanceAt(1) < 0
    /\ ScoreAt(1) = ScoreOne
    /\ DistanceAt(2) = 2
    /\ ScoreAt(2) = 0

HasEmptyText(chunk) == chunk.text = <<>>

\* the first n elements of a list
FirstN(s, n) == SubSeq(s, 1, IF n <= Len(s) THEN n ELSE Len(s))

\* C12 as stated: with max_context_characters = 0 _select_chunks returns the
\* empty list, whatever the candidates.
C12_ZeroBudgetSelectsNothing ==
    (SelectionReturned /\ settings.max_context_characters = 0) => selected = <<>>

\* C12 amended: with max_context_characters = 0 _select_chunks returns no
\* chunk with a non-empty text; it returns the chunks with an empty text that
\* pass the score filter, in order, up to max_sources of them.
C12_ZeroBudgetSelectsEmptyTexts ==
    (SelectionReturned /\ settings.max_context_characters = 0) =>
        /\ \A i \in 1..Len(selected) : selected[i].text = <<>>
        /\ selected = FirstN(SelectSeq(filtered, HasEmptyText), max_sources)

\* budget 0: a candidate whose missing text became "" was selected, a
\* candidate with a text that passed the filter was not
C12_Witness ==
    /\ SelectionReturned
    /\ settings.max_context_characters = 0
    /\ Len(selected) = 1
    /\ selected[1].text = <<>>
    /\ \E i \in 1..Len(raw[1].documents) : raw[1].documents[i] = <<>>
    /\ \E i \in 1..Len(filtered) : filtered[i].text # <<>>

\* C13: a request whose question is empty once stripped is rejected before
\* retrieval: the search is never called for it and no response is built.
C13_BlankQuestionRejected ==
    Strip(payload.question) = <<>> =>
        /\ search_calls = 0
        /\ response = <<>>

\* the reference greedy scan: walk the list once; accept a chunk iff fewer
\* than cap chunks are accepted and the accepted lengths plus its length fit
\* the budget; skip it otherwise and go on
RECURSIVE GreedyScan(_, _, _, _)
GreedyScan(chunks, accepted, cap, budget) ==
    IF chunks = <<>> THEN accepted
    ELSE IF /\ Len(accepted) < cap
            /\ SumOfTextLengths(accepted) + Len(Head(chunks).text) <= budget
           THEN GreedyScan(Tail(chunks), Append(accepted, Head(chunks)), cap, budget)
           ELSE GreedyScan(Tail(chunks), accepted, cap, budget)

\* C15: at every step of the scan the accepted chunks are the reference
\* greedy scan of the part of the filtered list already passed, so
\* _select_chunks returns the greedy scan of the whole list; and the scan
\* ends only with the cap reached or the list exhausted.
C15_GreedyScan ==
    /\ pc = "Scanning" =>
          selected = GreedyScan(FirstN(filtered, pos - 1), <<>>, max_sources,
                                settings.max_context_characters)
    /\ SelectionReturned =>
          /\ selected = GreedyScan(filtered, <<>>, max_sources,
                                   settings.max_context_characters)
          /\ pos > Len(filtered) \/ Len(selected) >= max_sources

\* the first chunk of the filtered list is longer than the budget and is
\* skipped, the second, shorter one is the only chunk returned and gets
\* citation id 1
C15_Witness ==
    /\ pc = "Completed"
    /\ Len(filtered) = 2
    /\ filtered[1].score > filtered[2].score
    /\ Len(filtered[1].text) > settings.max_context_characters
    /\ Len(filtered[2].text) <= settings.max_context_characters
    /\ selected = << filtered[2] >>
    /\ Len(response[1].sources) = 1
    /\ response[1].sources[1].id = filtered[2].id
    /\ response[1].sources[1].citation_id = 1

\* C14: whatever the interleaving of the first requests, at most one
\* ChromaRepository and at most one RAGService are ever built, and all the
\* callers of one helper get the same instance.
C14_SingleInstances ==
    /\ repos_created <= 1
    /\ Len(services) <= 1
    /\ \A c, d \in Callers :
          (/\ callers[c].pc = "returned"
           /\ callers[d].pc = "returned"
           /\ callers[c].via = callers[d].via)
             => callers[c].result = callers[d].result

\* the calls of answer_question in flight: the running one and the others
InFlight == { Running } \cup { parked[i] : i \in 1..Len(parked) }

\* what answer_question returns for a payload and a raw query result when it
\* runs alone, under the given settings
ResponseAlone(p, r, cfg) ==
    LET q == Strip(p.question)
        cap == IF p.max_sources # 0 THEN p.max_sources
               ELSE cfg.retrieval_default_top_k
        chosen == GreedyScan(
                      SortByScore(FilterByScore(BuildChunks(r),
                                                cfg.retrieval_min_score)),
                      <<>>, cap, cfg.max_context_characters)
    IN IF r.documents = <<>> THEN QueryResponse(NoKnowledgeAnswer, <<>>)
       ELSE QueryResponse(GenerateAnswer(q, chosen), FormatSources(chosen))

\* C16: with two calls of answer_question interleaved at any point, every
\* call that completed returned what it returns alone for its own payload
\* and its own query result, every call whose search failed ended with the
\* error and no response, the candidate list of a call stays what the search
\* returned for it, and no step changes the settings of the shared service.
C16_RequestsIsolated ==
    /\ [](\A call \in InFlight :
            /\ call.pc = "Completed" =>
                  /\ call.error = NoneStr
                  /\ call.response =
                        << ResponseAlone(call.payload, call.raw[1], settings) >>
            /\ call.pc = "Failed" =>
                  /\ call.error = "ChromaUnavailableError"
                  /\ call.response = <<>>
                  /\ call.raw = <<>>
            /\ call.raw # <<>> =>
                  call.candidate_chunks = BuildChunks(call.raw[1]))
    /\ [][settings' = settings]_vars

\* both calls are in the middle of their scans, over different filtered
\* lists, each with a chunk accepted and with different running totals
C16_Witness ==
    /\ parked # <<>>
    /\ pc = "Scanning"
    /\ parked[1].pc = "Scanning"
    /\ selected # <<>>
    /\ parked[1].selected # <<>>
    /\ pos <= Len(filtered)
    /\ parked[1].pos <= Len(parked[1].filtered)
    /\ filtered # parked[1].filtered
    /\ total_chars # parked[1].total_chars

====
